---- MODULE Spec2Model ----
(***************************************************************************)
(* A model of the MCP agent of src/src/index.ts: one authenticated         *)
(* session.  init() parses ALLOWED_USERNAMES, decides access (with the     *)
(* organization-membership fallback of checkUserAccess in the wildcard     *)
(* variant, lines 18-200, or with the bare list test of the explicit-list  *)
(* variant, lines 244-432), registers the tools and creates the pg pool.   *)
(* Tool handlers then run concurrently on the shared pool.                 *)
(*                                                                         *)
(* Strings the code inspects character by character (the allow-list, the   *)
(* login) are sequences of one-character strings.  The caller's SQL text   *)
(* is a sequence of statements: pg sends a text without parameters in the  *)
(* simple query protocol, where the server runs every statement of the     *)
(* text in order.                                                          *)
(***************************************************************************)
EXTENDS Integers, Sequences, FiniteSets, TLC

\* ------------------------------------------------------------------ bounds
MaxCfgLen == 3      \* longest ALLOWED_USERNAMES text
NumCalls == 2       \* tool invocations of the session
PoolMax == 1        \* connections the pool may open (pg's `max`)
MaxStmts == 2       \* statements in one caller-supplied SQL text
MaxNumber == 1      \* largest number in a row of column metadata
MaxOrgs == 2        \* organizations an explicit organization allow-list may name

Chars == {"a", "*", ",", " "}
Logins == {<<"a">>}
Calls == 1..NumCalls
Clients == 1..PoolMax
Statements == {"SELECT", "UPDATE", "COMMIT", "SYNTAXERR"}

SeqsUpTo(S, n) == UNION {[1..m -> S] : m \in 0..n}
SqlTexts == SeqsUpTo(Statements, MaxStmts) \ {<<>>}

VARIABLES
    variant,        \* which init() of index.ts the deployment runs
    env,            \* this.env: ALLOWED_USERNAMES, GITHUB_CLIENT_ID, GITHUB_CLIENT_SECRET
    login,          \* this.props.login
    pc,             \* position of init(): start, awaitFetch, awaitPublic, awaitMember, done
    hasAccess,      \* "pending", "grant" or "deny"
    remoteLog,      \* remote GitHub calls issued so far, with their outcomes
    tools,          \* names registered with this.server.tool
    pool,           \* this.pool # null
    cpc,            \* per call: position of the tool handler
    ctool,          \* per call: the tool invoked
    carg,           \* per call: the handler's arguments (sql, or schema)
    cclient,        \* per call: the client leased to it (0: none)
    cresult,        \* per call: what the handler returned or threw
    ctrace,         \* per call: what the handler did, in order
    clientState,    \* per pool slot: absent, idle, leased
    clientLessee,   \* per client: the call the pool has lent it to (0: none)
    clientQueue,    \* per client: queries submitted and not yet run (FIFO)
    clientTx,       \* per client: the call whose BEGIN opened the transaction (0: none)
    clientBroken,   \* per client: the connection has failed
    pending,        \* pool.connect() requests waiting for a client (FIFO)
    dbRan,          \* per call: caller-supplied statements the engine started
    dbOutside,      \* calls one of whose statements ran outside their own transaction
    dbCommitted,    \* calls whose transaction was committed
    dbMutated,      \* calls one of whose mutations became durable
    dbError,        \* per call: the message of the last rejection the engine gave it
    dbZero,         \* per call: the lookup the engine answered with no rows ("none": none)
    warnings,       \* calls whose ROLLBACK failure was logged
    row,            \* one row of the table tool's metadata query
    mapped,         \* result.rows.map has run on the row
    column,         \* the column entry built from the row
    candidates,     \* the configured organizations, in their iteration order
    orgProbes       \* membership probes issued for the candidates, with their outcomes

sessionVars == <<variant, env, login, pc, hasAccess, remoteLog, tools, pool>>
callVars == <<cpc, ctool, carg, cclient, cresult, ctrace>>
poolVars == <<clientState, clientLessee, clientQueue, clientTx, clientBroken, pending>>
dbVars == <<dbRan, dbOutside, dbCommitted, dbMutated, dbError, dbZero, warnings>>
columnVars == <<row, mapped, column>>
orgVars == <<candidates, orgProbes>>
vars == <<sessionVars, callVars, poolVars, dbVars, columnVars, orgVars>>

\* ------------------------------------------------- ALLOWED_USERNAMES parsing
RECURSIVE Split(_)
\* String.prototype.split(","): the pieces between the commas, empty ones kept
Split(s) ==
    IF \E i \in 1..Len(s) : s[i] = ","
    THEN LET i == CHOOSE j \in 1..Len(s) : s[j] = "," /\ \A h \in 1..(j - 1) : s[h] # ","
         IN <<SubSeq(s, 1, i - 1)>> \o Split(SubSeq(s, i + 1, Len(s)))
    ELSE <<s>>

RECURSIVE TrimStart(_)
TrimStart(s) == IF s # <<>> /\ Head(s) = " " THEN TrimStart(Tail(s)) ELSE s

RECURSIVE TrimEnd(_)
TrimEnd(s) == IF s # <<>> /\ s[Len(s)] = " " THEN TrimEnd(SubSeq(s, 1, Len(s) - 1)) ELSE s

\* String.prototype.trim()
Trim(s) == TrimEnd(TrimStart(s))

\* new Set(str.split(",").map(trim).filter(length > 0))
ALLOWED_USERNAMES(str) ==
    {Trim(Split(str)[i]) : i \in DOMAIN Split(str)} \ {<<>>}

Wildcard == <<"*">>

\* ------------------------------------------------------------ access decision
FetchOutcomes == {"throw", "notok", "badjson", "noowner", "user", "org"}
ProbeOutcomes == {"ok", "notfound", "error"}
MembershipOps == {"appInfo", "checkMembershipForUser", "getMembershipForUser"}

\* if (!clientId || !clientSecret) return null
CredentialsConfigured(e) == e.GITHUB_CLIENT_ID /\ e.GITHUB_CLIENT_SECRET

\* a variant that takes the owner's login whatever the owner's type
OwnerOfAnyType(outcome) == IF outcome \in {"org", "user"} THEN "acme" ELSE "null"

\* getOAuthAppOrganization after the fetch: the owner's login, or null
OwnerOrganization(outcome) == IF outcome = "org" THEN "acme" ELSE "null"

\* a variant that tests the wildcard before the explicit listing
FirstStepWildcardFirst(allowed, l, e) ==
    IF Wildcard \in allowed
    THEN IF CredentialsConfigured(e) THEN "fetch" ELSE "deny"
    ELSE IF l \in allowed THEN "grant" ELSE "deny"

\* a variant that falls back to the organization whenever the login is not listed
FirstStepNoWildcardTest(allowed, l, e) ==
    IF l \in allowed THEN "grant"
    ELSE IF CredentialsConfigured(e) THEN "fetch" ELSE "deny"

\* checkUserAccess up to its first await: the listed test, then the wildcard
\* test, then the credentials test of getOAuthAppOrganization
FirstStep(allowed, l, e) ==
    IF l \in allowed THEN "grant"
    ELSE IF Wildcard \in allowed
         THEN IF CredentialsConfigured(e) THEN "fetch" ELSE "deny"
         ELSE "deny"

\* if (!githubOrg) return false; else probe the public membership
AfterFetch(outcome) == IF OwnerOrganization(outcome) = "null" THEN "deny" ELSE "probe"

\* a variant that asks for the membership status whatever the public probe said
AfterPublicAlwaysProbe(outcome) == "probe"

\* checkMembershipForUser resolved: return true; it threw: try getMembershipForUser
AfterPublic(outcome) == IF outcome = "ok" THEN "grant" ELSE "probe"

\* getMembershipForUser resolved: return true; it threw: return false
AfterMember(outcome) == IF outcome = "ok" THEN "grant" ELSE "deny"

\* if (ALLOWED_USERNAMES.has(this.props.login)) of the explicit-list init
ExplicitStep(allowed, l) == IF l \in allowed THEN "grant" ELSE "deny"

\* the tools the granted branch of init registers
RegisteredTools(v) ==
    IF v = "wildcard" THEN {"userInfoOctokit", "query"}
    ELSE {"userInfoOctokit", "query", "steampipe_table_show"}

\* a variant that registers the tools and creates the pool outside the test
ConcludeUngated(decision) ==
    /\ hasAccess' = decision
    /\ tools' = RegisteredTools(variant)
    /\ pool' = TRUE
    /\ pc' = "done"

\* the rest of init once the decision is known: if (hasAccess) { tools, pool }
Conclude(decision) ==
    /\ hasAccess' = decision
    /\ tools' = IF decision = "grant" THEN RegisteredTools(variant) ELSE {}
    /\ pool' = (decision = "grant")
    /\ pc' = "done"

Issue(op) == remoteLog' = Append(remoteLog, [op |-> op, res |-> "pending"])
Answer(res) == remoteLog' = [remoteLog EXCEPT ![Len(remoteLog)].res = res]

\* init() up to its first suspension
InitStart ==
    /\ pc = "start"
    /\ LET allowed == ALLOWED_USERNAMES(env.ALLOWED_USERNAMES)
           step == IF variant = "explicit" THEN ExplicitStep(allowed, login)
                   ELSE FirstStep(allowed, login, env)
       IN IF step = "fetch"
          THEN /\ Issue("appInfo")
               /\ pc' = "awaitFetch"
               /\ UNCHANGED <<hasAccess, tools, pool>>
          ELSE /\ Conclude(step)
               /\ UNCHANGED remoteLog
    /\ UNCHANGED <<variant, env, login, callVars, poolVars, dbVars, columnVars, orgVars>>

\* the application lookup of getOAuthAppOrganization answers
FetchDone ==
    /\ pc = "awaitFetch"
    /\ \E outcome \in FetchOutcomes :
        IF AfterFetch(outcome) = "probe"
        THEN /\ remoteLog' = Append([remoteLog EXCEPT ![Len(remoteLog)].res = outcome],
                                    [op |-> "checkMembershipForUser", res |-> "pending"])
             /\ pc' = "awaitPublic"
             /\ UNCHANGED <<hasAccess, tools, pool>>
        ELSE /\ Answer(outcome)
             /\ Conclude("deny")
    /\ UNCHANGED <<variant, env, login, callVars, poolVars, dbVars, columnVars, orgVars>>

\* octokit.rest.orgs.checkMembershipForUser answers
PublicDone ==
    /\ pc = "awaitPublic"
    /\ \E outcome \in ProbeOutcomes :
        IF AfterPublic(outcome) = "probe"
        THEN /\ remoteLog' = Append([remoteLog EXCEPT ![Len(remoteLog)].res = outcome],
                                    [op |-> "getMembershipForUser", res |-> "pending"])
             /\ pc' = "awaitMember"
             /\ UNCHANGED <<hasAccess, tools, pool>>
        ELSE /\ Answer(outcome)
             /\ Conclude(AfterPublic(outcome))
    /\ UNCHANGED <<variant, env, login, callVars, poolVars, dbVars, columnVars, orgVars>>

\* octokit.rest.orgs.getMembershipForUser answers
MemberDone ==
    /\ pc = "awaitMember"
    /\ \E outcome \in ProbeOutcomes :
        /\ Answer(outcome)
        /\ Conclude(AfterMember(outcome))
    /\ UNCHANGED <<variant, env, login, callVars, poolVars, dbVars, columnVars, orgVars>>

\* ------------------------------------- the explicit organization allow-list
\* The decision of a deployment configured with a set of organizations
\* instead of the application credentials: no owner resolution, one
\* membership probe for each candidate with the user's own credential.
Orgs == 1..MaxOrgs
OrgLists == {l \in SeqsUpTo(Orgs, MaxOrgs) :
                \A i, j \in 1..Len(l) : i # j => l[i] # l[j]}

\* the decision up to its first probe: listed, no wildcard, empty set
OrgFirstStep(allowed, l, orgs) ==
    IF l \in allowed THEN "grant"
    ELSE IF Wildcard \notin allowed THEN "deny"
    ELSE IF orgs = <<>> THEN "deny" ELSE "probe"

\* a variant that gives up at the first candidate that fails
AfterOrgProbeFirstOnly(outcome, i, orgs) == IF outcome = "ok" THEN "grant" ELSE "deny"

\* the probe of candidate i answered: grant on success, else the next
\* candidate, deny after the last
AfterOrgProbe(outcome, i, orgs) ==
    IF outcome = "ok" THEN "grant"
    ELSE IF i < Len(orgs) THEN "probe" ELSE "deny"

OrgProbe(i) == [org |-> candidates[i], res |-> "pending"]

\* the decision up to its first suspension
OrgStart ==
    /\ variant = "orgset"
    /\ pc = "start"
    /\ LET step == OrgFirstStep(ALLOWED_USERNAMES(env.ALLOWED_USERNAMES), login, candidates)
       IN IF step = "probe"
          THEN /\ orgProbes' = <<OrgProbe(1)>>
               /\ pc' = "awaitOrg"
               /\ UNCHANGED hasAccess
          ELSE /\ hasAccess' = step
               /\ pc' = "done"
               /\ UNCHANGED orgProbes
    /\ UNCHANGED <<variant, env, login, remoteLog, tools, pool, candidates,
                   callVars, poolVars, dbVars, columnVars>>

\* the membership probe of the current candidate answers
OrgProbeDone ==
    /\ pc = "awaitOrg"
    /\ \E outcome \in ProbeOutcomes :
        LET i == Len(orgProbes)
            answered == [orgProbes EXCEPT ![i].res = outcome]
            step == AfterOrgProbe(outcome, i, candidates)
        IN IF step = "probe"
           THEN /\ orgProbes' = Append(answered, OrgProbe(i + 1))
                /\ UNCHANGED <<pc, hasAccess>>
           ELSE /\ orgProbes' = answered
                /\ hasAccess' = step
                /\ pc' = "done"
    /\ UNCHANGED <<variant, env, login, remoteLog, tools, pool, candidates,
                   callVars, poolVars, dbVars, columnVars>>

\* ---------------------------------------------------------------- the engine
\* What the server does with one query text sent in the simple query protocol
\* inside the transaction `tx` (0: none) on behalf of call k.  A syntax error
\* anywhere rejects the text before any statement runs; otherwise statements
\* run in order until one fails.  BEGIN TRANSACTION READ ONLY makes UPDATE
\* fail; COMMIT ends the transaction, and what follows runs on its own.
EngineStart(tx) ==
    [ok |-> TRUE, message |-> "", tx |-> tx, ran |-> 0, outside |-> FALSE,
     committed |-> {}, mutated |-> FALSE]

RECURSIVE RunFrom(_, _, _)
RunFrom(text, k, st) ==
    IF text = <<>> \/ ~st.ok THEN st
    ELSE LET s == Head(text)
             st1 == [st EXCEPT !.ran = @ + 1, !.outside = @ \/ st.tx # k]
         IN CASE s = "SELECT" -> RunFrom(Tail(text), k, st1)
              [] s = "UPDATE" ->
                    IF st.tx # 0
                    THEN [st1 EXCEPT !.ok = FALSE,
                                     !.message = "cannot execute UPDATE in a read-only transaction"]
                    ELSE RunFrom(Tail(text), k, [st1 EXCEPT !.mutated = TRUE])
              [] s = "COMMIT" ->
                    RunFrom(Tail(text), k,
                            [st1 EXCEPT !.tx = 0,
                                        !.committed = IF st.tx # 0 THEN @ \cup {st.tx} ELSE @])
              [] OTHER -> [st1 EXCEPT !.ok = FALSE, !.message = "syntax error"]

ExecSql(text, tx, k) ==
    IF \E i \in 1..Len(text) : text[i] = "SYNTAXERR"
    THEN [EngineStart(tx) EXCEPT !.ok = FALSE, !.message = "syntax error"]
    ELSE RunFrom(text, k, EngineStart(tx))

ConnectionLost == "Connection terminated unexpectedly"
ConnectRefused == "connect ECONNREFUSED"

\* What a query hands back to the handler: rows, or a rejection with an Error
Resolved(rows) == [ok |-> TRUE, rows |-> rows, isError |-> TRUE, message |-> ""]
Rejected(message) == [ok |-> FALSE, rows |-> "none", isError |-> TRUE, message |-> message]

\* ------------------------------------------------------------- tool handlers
NoResult == [kind |-> "none", prefix |-> "", message |-> ""]
Returned(kind) == [kind |-> kind, prefix |-> "", message |-> ""]
Thrown(prefix, message) == [kind |-> "error", prefix |-> prefix, message |-> message]

\* a variant that drops the engine's message
ErrorTextUnknown(r) == "Unknown error"

\* error instanceof Error ? error.message : 'Unknown error'
ErrorText(r) == IF r.isError THEN r.message ELSE "Unknown error"

\* catch (error) { throw new Error(`Query execution failed: ${...}`) }
QueryFailure(r) == Thrown("Query execution failed: ", ErrorText(r))

\* catch (error) { throw new Error(`Failed to get table details: ${...}`) }
TableFailure(r) == Thrown("Failed to get table details: ", ErrorText(r))

\* a variant that awaits the ROLLBACK and lets its failure replace the outcome
OnRollbackThrows(r, result) == IF r.ok THEN result ELSE QueryFailure(r)

\* client.query("ROLLBACK").catch((error) => console.warn(...)): the promise
\* is not awaited and its rejection is swallowed, the outcome stays
OnRollback(r, result) == result

\* a variant with pool.connect() inside the try block
ConnectFailureInsideTry(r) == QueryFailure(r)

\* const client = await this.pool.connect() stands before `try`: its
\* rejection leaves the handler as it is
ConnectFailure(r) == Thrown("", ErrorText(r))

\* JavaScript truthiness of the optional `schema` argument: if (schema)
Truthy(schema) == schema \notin {"undefined", ""}

\* a variant whose finally block releases without a ROLLBACK
FinallyNoRollback == <<"release">>

\* a variant whose finally block forgets client.release()
FinallyNoRelease == <<"ROLLBACK">>

\* finally { client.query("ROLLBACK").catch(warn); client.release(); }
\* in the order the handler performs them
Finally == <<"ROLLBACK", "release">>

\* One step of a handler: the query it awaited settled with r.  The handler
\* either submits its next query (`submit`) or leaves through `finally` with
\* a result.
Continue(cmd, next) ==
    [submit |-> cmd, pc |-> next, result |-> NoResult, finally |-> <<>>]
Leave(result) ==
    [submit |-> "none", pc |-> "returned", result |-> result, finally |-> Finally]

\* the `query` tool, lines 179-195 (and 304-320)
QueryStep(cmd, r) ==
    CASE cmd = "BEGIN" -> IF r.ok THEN Continue("SQL", "awaitSql") ELSE Leave(QueryFailure(r))
      [] OTHER -> IF r.ok THEN Leave(Returned("rows")) ELSE Leave(QueryFailure(r))

\* a variant whose not-found returns leave without the finally block
TableStepEarlyReturn(cmd, r, schema) ==
    CASE ~r.ok -> Leave(TableFailure(r))
      [] cmd = "BEGIN" ->
            IF Truthy(schema) THEN Continue("SCHEMAQ", "awaitSchema")
            ELSE Continue("TABLEQ", "awaitTable")
      [] cmd = "SCHEMAQ" ->
            IF r.rows = "zero"
            THEN [Leave(Returned("schema not found")) EXCEPT !.finally = <<>>]
            ELSE Continue("TABLEQ", "awaitTable")
      [] OTHER ->
            IF r.rows = "zero"
            THEN [Leave(Returned("table not found")) EXCEPT !.finally = <<>>]
            ELSE Leave(Returned("table"))

\* a variant that throws when the schema or the table is not found
TableStepThrowsNotFound(cmd, r, schema) ==
    CASE ~r.ok -> Leave(TableFailure(r))
      [] cmd = "BEGIN" ->
            IF Truthy(schema) THEN Continue("SCHEMAQ", "awaitSchema")
            ELSE Continue("TABLEQ", "awaitTable")
      [] cmd = "SCHEMAQ" ->
            IF r.rows = "zero" THEN Leave(TableFailure(Rejected("schema not found")))
            ELSE Continue("TABLEQ", "awaitTable")
      [] OTHER ->
            IF r.rows = "zero" THEN Leave(TableFailure(Rejected("table not found")))
            ELSE Leave(Returned("table"))

\* the `steampipe_table_show` tool, lines 337-427
TableStep(cmd, r, schema) ==
    CASE ~r.ok -> Leave(TableFailure(r))
      [] cmd = "BEGIN" ->
            IF Truthy(schema) THEN Continue("SCHEMAQ", "awaitSchema")
            ELSE Continue("TABLEQ", "awaitTable")
      [] cmd = "SCHEMAQ" ->
            IF r.rows = "zero" THEN Leave(Returned("schema not found"))
            ELSE Continue("TABLEQ", "awaitTable")
      [] OTHER ->
            IF r.rows = "zero" THEN Leave(Returned("table not found"))
            ELSE Leave(Returned("table"))

HandlerStep(tool, cmd, r, arg) ==
    IF tool = "query" THEN QueryStep(cmd, r) ELSE TableStep(cmd, r, arg.schema)

\* -------------------------------------------------------- calls and the pool
SchemaArgs == {"undefined", "", "s"}
NoArg == [sql |-> <<>>, schema |-> "undefined"]
ToolArgs(tool) ==
    CASE tool = "query" -> {[sql |-> t, schema |-> "undefined"] : t \in SqlTexts}
      [] tool = "steampipe_table_show" -> {[sql |-> <<>>, schema |-> a] : a \in SchemaArgs}
      [] OTHER -> {NoArg}

Query(k, cmd, text) == [by |-> k, cmd |-> cmd, text |-> text]

\* a variant whose user-info handler looks the membership up again
UserInfoOpMembership == "getMembershipForUser"

\* the one remote call of the userInfoOctokit handler:
\* octokit.rest.users.getAuthenticated()
UserInfoOp == "getAuthenticated"

\* a tool is invoked: the handler runs up to its first await
StartCall(k) ==
    /\ pc = "done"
    /\ cpc[k] = "idle"
    /\ \E tool \in tools : \E arg \in ToolArgs(tool) :
        /\ ctool' = [ctool EXCEPT ![k] = tool]
        /\ IF tool = "userInfoOctokit"
           THEN /\ Issue(UserInfoOp)
                /\ cpc' = [cpc EXCEPT ![k] = "awaitUser"]
                /\ carg' = [carg EXCEPT ![k] = arg]
                /\ UNCHANGED <<cresult, ctrace, pending>>
           ELSE IF ~pool
           THEN \* throw new Error("Database pool not initialized")
                /\ cpc' = [cpc EXCEPT ![k] = "returned"]
                /\ cresult' = [cresult EXCEPT ![k] = Thrown("", "Database pool not initialized")]
                /\ ctrace' = [ctrace EXCEPT ![k] = <<"end">>]
                /\ UNCHANGED <<carg, pending, remoteLog>>
           ELSE \* await this.pool.connect()
                /\ cpc' = [cpc EXCEPT ![k] = "connecting"]
                /\ carg' = [carg EXCEPT ![k] = arg]
                /\ pending' = Append(pending, k)
                /\ UNCHANGED <<cresult, ctrace, remoteLog>>
    /\ UNCHANGED <<variant, env, login, pc, hasAccess, tools, pool, cclient,
                   clientState, clientLessee, clientQueue, clientTx, clientBroken, dbVars, columnVars, orgVars>>

\* octokit.rest.users.getAuthenticated() answers
UserInfoDone(k) ==
    /\ cpc[k] = "awaitUser"
    /\ \E ok \in BOOLEAN :
        /\ Answer(IF ok THEN "ok" ELSE "error")
        /\ cresult' = [cresult EXCEPT ![k] =
                          IF ok THEN Returned("user") ELSE Thrown("", "request failed")]
    /\ cpc' = [cpc EXCEPT ![k] = "returned"]
    /\ ctrace' = [ctrace EXCEPT ![k] = <<"end">>]
    /\ carg' = [carg EXCEPT ![k] = NoArg]
    /\ UNCHANGED <<variant, env, login, pc, hasAccess, tools, pool, ctool, cclient,
                   poolVars, dbVars, columnVars, orgVars>>

\* pool.connect() resolved with client c: the handler submits BEGIN
Lease(k, c) ==
    /\ cclient' = [cclient EXCEPT ![k] = c]
    /\ clientState' = [clientState EXCEPT ![c] = "leased"]
    /\ clientLessee' = [clientLessee EXCEPT ![c] = k]
    /\ clientQueue' = [clientQueue EXCEPT ![c] = Append(@, Query(k, "BEGIN", <<>>))]
    /\ cpc' = [cpc EXCEPT ![k] = "awaitBegin"]
    /\ ctrace' = [ctrace EXCEPT ![k] = <<"connect", "BEGIN">>]
    /\ pending' = Tail(pending)

\* the pool hands an idle client to the longest-waiting request
PoolGive(c) ==
    /\ pending # <<>>
    /\ clientState[c] = "idle"
    /\ Lease(Head(pending), c)
    /\ UNCHANGED <<sessionVars, ctool, carg, cresult, clientTx, clientBroken, dbVars, columnVars, orgVars>>

\* no idle client and room for one more: the pool opens a connection, which
\* may fail; pool.connect() then rejects, outside the handler's try
PoolOpen(c) ==
    /\ pending # <<>>
    /\ \A d \in Clients : clientState[d] # "idle"
    /\ clientState[c] = "absent"
    /\ LET k == Head(pending) IN
       \/ /\ Lease(k, c)
          /\ UNCHANGED <<carg, cresult>>
       \/ /\ pending' = Tail(pending)
          /\ cpc' = [cpc EXCEPT ![k] = "returned"]
          /\ cresult' = [cresult EXCEPT ![k] = ConnectFailure(Rejected(ConnectRefused))]
          /\ ctrace' = [ctrace EXCEPT ![k] = <<"connect failed", "end">>]
          /\ carg' = [carg EXCEPT ![k] = NoArg]
          /\ UNCHANGED <<cclient, clientState, clientLessee, clientQueue>>
    /\ UNCHANGED <<sessionVars, ctool, clientTx, clientBroken, dbVars, columnVars, orgVars>>

\* the pool drops an idle client whose connection has failed
PoolRemove(c) ==
    /\ clientState[c] = "idle"
    /\ clientBroken[c]
    /\ clientQueue[c] = <<>>
    /\ clientState' = [clientState EXCEPT ![c] = "absent"]
    /\ clientBroken' = [clientBroken EXCEPT ![c] = FALSE]
    /\ UNCHANGED <<sessionVars, callVars, clientLessee, clientQueue, clientTx, pending, dbVars, columnVars, orgVars>>

\* what the engine may answer to the query q at the head of client c's queue
Quiet(r, tx, broken) ==
    [r |-> r, tx |-> tx, broken |-> broken, ran |-> 0, outside |-> FALSE,
     committed |-> {}, mutated |-> FALSE]

EngineOutcomes(q, c) ==
    LET lost == Quiet(Rejected(ConnectionLost), 0, TRUE)
        tx == clientTx[c]
    IN IF clientBroken[c] THEN {lost}
       ELSE {lost} \cup
            CASE q.cmd = "BEGIN" -> {Quiet(Resolved("none"), IF tx = 0 THEN q.by ELSE tx, FALSE)}
              [] q.cmd = "ROLLBACK" -> {Quiet(Resolved("none"), 0, FALSE)}
              [] q.cmd = "SQL" ->
                    LET e == ExecSql(q.text, tx, q.by)
                    IN {[r |-> IF e.ok THEN Resolved("some") ELSE Rejected(e.message),
                         tx |-> e.tx, broken |-> FALSE, ran |-> e.ran,
                         outside |-> e.outside, committed |-> e.committed,
                         mutated |-> e.mutated]}
              [] q.cmd = "SCHEMAQ" ->
                    {Quiet(Resolved("zero"), tx, FALSE), Quiet(Resolved("some"), tx, FALSE)}
              [] OTHER ->
                    {Quiet(Resolved("zero"), tx, FALSE), Quiet(Resolved("some"), tx, FALSE),
                     Quiet(Rejected("relation does not exist"), tx, FALSE)}

\* the engine runs the query at the head of client c's queue and the promise
\* settles: an awaiting handler runs on to its next await or to its end
DbExec(c) ==
    /\ clientQueue[c] # <<>>
    /\ LET q == Head(clientQueue[c])
           k == q.by
       IN \E o \in EngineOutcomes(q, c) :
           /\ clientTx' = [clientTx EXCEPT ![c] = o.tx]
           /\ clientBroken' = [clientBroken EXCEPT ![c] = o.broken]
           /\ dbRan' = [dbRan EXCEPT ![k] = @ + o.ran]
           /\ dbOutside' = IF o.outside THEN dbOutside \cup {k} ELSE dbOutside
           /\ dbCommitted' = dbCommitted \cup o.committed
           /\ dbMutated' = IF o.mutated THEN dbMutated \cup {k} ELSE dbMutated
           /\ dbError' = IF o.r.ok \/ q.cmd = "ROLLBACK" THEN dbError
                         ELSE [dbError EXCEPT ![k] = o.r.message]
           /\ dbZero' = IF o.r.ok /\ o.r.rows = "zero" THEN [dbZero EXCEPT ![k] = q.cmd]
                        ELSE dbZero
           /\ IF q.cmd = "ROLLBACK"
              THEN \* .catch((error) => console.warn(...)): nobody awaits it
                   /\ warnings' = IF o.r.ok THEN warnings ELSE warnings \cup {k}
                   /\ clientQueue' = [clientQueue EXCEPT ![c] = Tail(@)]
                   /\ cresult' = [cresult EXCEPT ![k] = OnRollback(o.r, @)]
                   /\ UNCHANGED <<cpc, ctool, carg, cclient, ctrace, clientState, clientLessee>>
              ELSE LET step == HandlerStep(ctool[k], q.cmd, o.r, carg[k]) IN
                   /\ warnings' = warnings
                   /\ IF step.submit # "none"
                      THEN /\ clientQueue' = [clientQueue EXCEPT ![c] =
                                  Append(Tail(@), Query(k, step.submit, carg[k].sql))]
                           /\ cpc' = [cpc EXCEPT ![k] = step.pc]
                           /\ ctrace' = [ctrace EXCEPT ![k] = Append(@, step.submit)]
                           /\ UNCHANGED <<ctool, carg, cclient, cresult, clientState,
                                          clientLessee>>
                      ELSE LET rollback == \E i \in 1..Len(step.finally) :
                                               step.finally[i] = "ROLLBACK"
                               release == \E i \in 1..Len(step.finally) :
                                              step.finally[i] = "release"
                           IN /\ clientQueue' = [clientQueue EXCEPT ![c] =
                                     IF rollback THEN Append(Tail(@), Query(k, "ROLLBACK", <<>>))
                                     ELSE Tail(@)]
                              /\ clientState' = IF release
                                                THEN [clientState EXCEPT ![c] = "idle"]
                                                ELSE clientState
                              /\ clientLessee' = IF release
                                                 THEN [clientLessee EXCEPT ![c] = 0]
                                                 ELSE clientLessee
                              /\ cclient' = IF release THEN [cclient EXCEPT ![k] = 0]
                                            ELSE cclient
                              /\ cpc' = [cpc EXCEPT ![k] = "returned"]
                              /\ cresult' = [cresult EXCEPT ![k] = step.result]
                              /\ ctrace' = [ctrace EXCEPT ![k] = @ \o step.finally \o <<"end">>]
                              /\ carg' = [carg EXCEPT ![k] = NoArg]
                              /\ ctool' = ctool
    /\ UNCHANGED <<sessionVars, pending, columnVars, orgVars>>

\* ------------------------------------------------------- the column mapping
\* What a field of a row of the metadata query holds: null, a number (the
\* int4 columns of information_schema.columns) or a string (col_description)
Null == [t |-> "null", n |-> 0, s |-> ""]
Number(n) == [t |-> "number", n |-> n, s |-> ""]
String(s) == [t |-> "string", n |-> 0, s |-> s]

NumberFields == {"character_maximum_length", "numeric_precision", "numeric_scale"}
OptionalFields == NumberFields \cup {"description"}
FieldValues(f) ==
    IF f \in NumberFields THEN {Null} \cup {Number(n) : n \in 0..MaxNumber}
    ELSE {Null, String(""), String("d")}
Rows == {r \in [OptionalFields -> UNION {FieldValues(f) : f \in OptionalFields}] :
            \A f \in OptionalFields : r[f] \in FieldValues(f)}
NullRow == [f \in OptionalFields |-> Null]

\* the left operand of `row.f && { f: row.f }`: JavaScript truthiness
JsTruthy(v) ==
    CASE v.t = "null" -> FALSE
      [] v.t = "number" -> v.n # 0
      [] OTHER -> v.s # ""

\* ...(row.f && { f: row.f }) for the four optional fields: the spread of a
\* falsy left operand adds nothing to the entry
ColumnEntry(r) == [f \in {g \in OptionalFields : JsTruthy(r[g])} |-> r[f]]

\* result.rows.map(row => ({ ... })) on one row
MapColumn ==
    /\ ~mapped
    /\ column' = ColumnEntry(row)
    /\ mapped' = TRUE
    /\ UNCHANGED <<row, sessionVars, callVars, poolVars, dbVars, orgVars>>

\* ------------------------------------------------------------- specification
\* no call has started and no connection exists
NoCalls ==
    /\ cpc = [k \in Calls |-> "idle"]
    /\ ctool = [k \in Calls |-> "none"]
    /\ carg = [k \in Calls |-> NoArg]
    /\ cclient = [k \in Calls |-> 0]
    /\ cresult = [k \in Calls |-> NoResult]
    /\ ctrace = [k \in Calls |-> <<>>]
    /\ clientState = [c \in Clients |-> "absent"]
    /\ clientLessee = [c \in Clients |-> 0]
    /\ clientQueue = [c \in Clients |-> <<>>]
    /\ clientTx = [c \in Clients |-> 0]
    /\ clientBroken = [c \in Clients |-> FALSE]
    /\ pending = <<>>
    /\ dbRan = [k \in Calls |-> 0]
    /\ dbOutside = {}
    /\ dbCommitted = {}
    /\ dbMutated = {}
    /\ dbError = [k \in Calls |-> ""]
    /\ dbZero = [k \in Calls |-> "none"]
    /\ warnings = {}

\* init() has not run
NoDecision ==
    /\ pc = "start"
    /\ hasAccess = "pending"
    /\ remoteLog = <<>>
    /\ tools = {}
    /\ pool = FALSE

\* no organization allow-list is configured
NoOrgs ==
    /\ candidates = <<>>
    /\ orgProbes = <<>>

\* no row is being mapped
NoColumn ==
    /\ row = NullRow
    /\ mapped = FALSE
    /\ column = <<>>

Init ==
    /\ variant \in {"wildcard", "explicit"}
    /\ env \in [ALLOWED_USERNAMES : SeqsUpTo(Chars, MaxCfgLen),
                GITHUB_CLIENT_ID : BOOLEAN, GITHUB_CLIENT_SECRET : BOOLEAN]
    \* the explicit-list init never reads the application credentials
    /\ variant = "explicit" => CredentialsConfigured(env)
    /\ login \in Logins
    /\ NoDecision
    /\ NoCalls
    /\ NoColumn
    /\ NoOrgs

Next ==
    \/ InitStart
    \/ FetchDone
    \/ PublicDone
    \/ MemberDone
    \/ \E k \in Calls : StartCall(k)
    \/ \E k \in Calls : UserInfoDone(k)
    \/ \E c \in Clients : PoolGive(c)
    \/ \E c \in Clients : PoolOpen(c)
    \/ \E c \in Clients : PoolRemove(c)
    \/ \E c \in Clients : DbExec(c)

Spec == Init /\ [][Next]_vars

\* The session under the scheduling the runtime gives it: init runs, every
\* remote call and every query submitted to a connection is answered in the
\* end, and the pool serves a waiting request when it can.  Callers are free
\* never to call.  The allow-list is the login or the wildcard.
InitLive ==
    /\ variant \in {"wildcard", "explicit"}
    /\ env \in [ALLOWED_USERNAMES : {<<"a">>, <<"*">>},
                GITHUB_CLIENT_ID : {TRUE}, GITHUB_CLIENT_SECRET : {TRUE}]
    /\ login \in Logins
    /\ NoDecision
    /\ NoCalls
    /\ NoColumn
    /\ NoOrgs

Fairness ==
    /\ WF_vars(InitStart)
    /\ WF_vars(FetchDone)
    /\ WF_vars(PublicDone)
    /\ WF_vars(MemberDone)
    /\ \A k \in Calls : WF_vars(UserInfoDone(k))
    /\ \A c \in Clients : WF_vars(PoolGive(c))
    /\ \A c \in Clients : WF_vars(PoolOpen(c))
    /\ \A c \in Clients : WF_vars(DbExec(c))

LiveSpec == InitLive /\ [][Next]_vars /\ Fairness

\* the decision of a deployment with an explicit organization allow-list
InitOrgs ==
    /\ variant = "orgset"
    /\ env \in [ALLOWED_USERNAMES : SeqsUpTo(Chars, MaxCfgLen),
                GITHUB_CLIENT_ID : {FALSE}, GITHUB_CLIENT_SECRET : {FALSE}]
    /\ login \in Logins
    /\ candidates \in OrgLists
    /\ orgProbes = <<>>
    /\ NoDecision
    /\ NoCalls
    /\ NoColumn

NextOrgs == OrgStart \/ OrgProbeDone

SpecOrgs == InitOrgs /\ [][NextOrgs]_vars

\* the column mapping alone, on every row of metadata
InitColumns ==
    /\ variant = "explicit"
    /\ env = [ALLOWED_USERNAMES |-> <<"a">>, GITHUB_CLIENT_ID |-> TRUE,
              GITHUB_CLIENT_SECRET |-> TRUE]
    /\ login \in Logins
    /\ NoDecision
    /\ NoCalls
    /\ row \in Rows
    /\ mapped = FALSE
    /\ column = <<>>
    /\ NoOrgs

NextColumns == MapColumn

SpecColumns == InitColumns /\ [][NextColumns]_vars

\* ===================================================================== claims
Allowed == ALLOWED_USERNAMES(env.ALLOWED_USERNAMES)
Listed == login \in Allowed
MembershipCalls == {i \in 1..Len(remoteLog) : remoteLog[i].op \in MembershipOps}
\* the outcome of the remote call `op` of the access decision ("none": not issued)
Res(op) ==
    IF \E i \in 1..Len(remoteLog) : remoteLog[i].op = op
    THEN remoteLog[CHOOSE i \in 1..Len(remoteLog) : remoteLog[i].op = op].res
    ELSE "none"

\* C1: when the login is in the allow-list, the decision is a grant taken in
\* init's first step, and no owner-resolution request or membership probe is
\* ever issued, so no remote outcome can stand in its way.
C1_ListedGrantsWithoutRemoteCall ==
    Listed => /\ MembershipCalls = {}
              /\ pc \in {"start", "done"}
              /\ pc = "done" => hasAccess = "grant"

\* the login is listed next to the wildcard, under the wildcard variant
C1_Witness ==
    /\ variant = "wildcard"
    /\ Listed
    /\ Wildcard \in Allowed
    /\ pc = "done"
    /\ hasAccess = "grant"

\* C2: when the allow-list holds neither the wildcard nor the login, the
\* decision is a denial taken in init's first step and no owner-resolution
\* request or membership probe is ever issued.
C2_UnlistedNoWildcardDenies ==
    (~Listed /\ Wildcard \notin Allowed) =>
        /\ MembershipCalls = {}
        /\ pc \in {"start", "done"}
        /\ pc = "done" => hasAccess = "deny"

\* a non-empty allow-list without the login, application credentials present
C2_Witness ==
    /\ variant = "wildcard"
    /\ ~Listed
    /\ Wildcard \notin Allowed
    /\ Allowed # {}
    /\ CredentialsConfigured(env)
    /\ pc = "done"
    /\ hasAccess = "deny"

\* a remote call of the decision failed (transport error, exception, non-OK
\* response), or the wildcard path found the application credentials missing
RemoteFailure ==
    \E i \in MembershipCalls : remoteLog[i].res \in {"throw", "notok", "badjson", "error"}
ConfigurationFailure ==
    /\ variant = "wildcard"
    /\ ~Listed
    /\ Wildcard \in Allowed
    /\ ~CredentialsConfigured(env)

\* C3: the decision always ends in a boolean, and whenever the configuration
\* or a remote call failed the decision is a denial.
C3_FailuresDeny ==
    pc = "done" =>
        /\ hasAccess \in {"grant", "deny"}
        /\ (RemoteFailure \/ ConfigurationFailure) => hasAccess = "deny"

\* the wildcard path: login not listed, "*" listed, org-owner resolution
WildcardPath == variant = "wildcard" /\ ~Listed /\ Wildcard \in Allowed /\ pc = "done"
OwnerResolutionFailed ==
    \/ ~CredentialsConfigured(env)
    \/ Res("appInfo") \in {"throw", "notok", "badjson", "noowner", "user"}

\* C4: on the wildcard path, a failed owner resolution denies; a resolved
\* owner and a successful public-membership check grant; a resolved owner, a
\* not-found public check and a successful membership-status check grant; a
\* resolved owner and two not-found checks deny.
C4_WildcardOutcomes ==
    WildcardPath =>
        /\ OwnerResolutionFailed => hasAccess = "deny"
        /\ (Res("appInfo") = "org" /\ Res("checkMembershipForUser") = "ok")
              => hasAccess = "grant"
        /\ (Res("appInfo") = "org" /\ Res("checkMembershipForUser") = "notfound"
                /\ Res("getMembershipForUser") = "ok") => hasAccess = "grant"
        /\ (Res("appInfo") = "org" /\ Res("checkMembershipForUser") = "notfound"
                /\ Res("getMembershipForUser") = "notfound") => hasAccess = "deny"

\* a private member: public check not-found, membership-status check ok, grant
C4_Witness ==
    /\ WildcardPath
    /\ Res("appInfo") = "org"
    /\ Res("checkMembershipForUser") = "notfound"
    /\ Res("getMembershipForUser") = "ok"
    /\ hasAccess = "grant"

Count(seq, e) == Cardinality({i \in 1..Len(seq) : seq[i] = e})
\* where e first occurs in seq (0: nowhere)
Pos(seq, e) ==
    IF \E i \in 1..Len(seq) : seq[i] = e
    THEN CHOOSE i \in 1..Len(seq) : seq[i] = e /\ \A j \in 1..(i - 1) : seq[j] # e
    ELSE 0
DbTools == {"query", "steampipe_table_show"}
Leased == {c \in Clients : clientState[c] = "leased"}
Available == PoolMax - Cardinality(Leased)
AllReturned == \A k \in Calls : cpc[k] = "returned"

\* C6: a call of the query tool or of the table tool acquires at most one
\* lease, holds it exactly from the acquisition to its single release, and
\* has released it, before it ends, on every path on which it got one.
C6_OneLeaseReleasedOnce ==
    \A k \in Calls : ctool[k] \in DbTools =>
        /\ Count(ctrace[k], "connect") <= 1
        /\ Count(ctrace[k], "release") <= Count(ctrace[k], "connect")
        /\ (cclient[k] # 0) <=>
              (Count(ctrace[k], "connect") = 1 /\ Count(ctrace[k], "release") = 0)
        /\ cclient[k] # 0 => clientLessee[cclient[k]] = k
        /\ cpc[k] = "returned" =>
              /\ Count(ctrace[k], "release") = Count(ctrace[k], "connect")
              /\ \A c \in Clients : clientLessee[c] # k
              /\ Count(ctrace[k], "connect") = 1 =>
                    Pos(ctrace[k], "release") < Pos(ctrace[k], "end")

\* the table tool left through its schema-not-found return, and its ROLLBACK
\* failed afterwards
C6_Witness ==
    \E k \in Calls :
        /\ cpc[k] = "returned"
        /\ cresult[k].kind = "schema not found"
        /\ k \in warnings
        /\ Count(ctrace[k], "release") = 1

C8_RollbackNeverCommit ==
    /\ \A k \in Calls :
          (ctool[k] = "query" /\ cpc[k] = "returned" /\ Count(ctrace[k], "connect") = 1) =>
              /\ Pos(ctrace[k], "ROLLBACK") > 0
              /\ Pos(ctrace[k], "ROLLBACK") < Pos(ctrace[k], "release")
    /\ dbCommitted = {}

\* C9: a query call submits BEGIN before the caller's text, submits the text
\* once and only after BEGIN succeeded, and the engine runs at most one
\* caller-supplied statement for it, none outside the call's own transaction.
C9_OneStatementInOwnTransaction ==
    \A k \in Calls : ctool[k] = "query" =>
        /\ Count(ctrace[k], "SQL") <= 1
        /\ Count(ctrace[k], "SQL") = 1 =>
              (Pos(ctrace[k], "BEGIN") > 0 /\ Pos(ctrace[k], "BEGIN") < Pos(ctrace[k], "SQL"))
        /\ dbRan[k] <= 1
        /\ k \notin dbOutside

\* C10: a query call to which the engine rejected BEGIN or the caller's text
\* ends with the error "Query execution failed: " followed by the engine's
\* message, with no rows, and its lease is back in the pool.
C10_FailureCarriesEngineMessage ==
    \A k \in Calls :
        (ctool[k] = "query" /\ cpc[k] = "returned" /\ dbError[k] # "") =>
            /\ cresult[k] = Thrown("Query execution failed: ", dbError[k])
            /\ Count(ctrace[k], "release") = 1
            /\ cclient[k] = 0
            /\ \A c \in Clients : clientLessee[c] # k

\* the engine refused an UPDATE inside the read-only transaction
C10_Witness ==
    \E k \in Calls :
        /\ ctool[k] = "query"
        /\ cpc[k] = "returned"
        /\ Count(ctrace[k], "SQL") = 1
        /\ dbError[k] = "cannot execute UPDATE in a read-only transaction"
        /\ cresult[k].kind = "error"

\* C11: the outcome of a query call that got a lease is decided by what the
\* engine answered to BEGIN and to the caller's text alone: rows when neither
\* was rejected, the query failure with that rejection's message otherwise.
\* A ROLLBACK that fails afterwards is logged, leaves that outcome as it is,
\* and the lease is back in the pool.
C11_RollbackFailureKeepsOutcome ==
    \A k \in Calls :
        (ctool[k] = "query" /\ cpc[k] = "returned" /\ Count(ctrace[k], "connect") = 1) =>
            /\ cresult[k] = IF dbError[k] = "" THEN Returned("rows")
                            ELSE Thrown("Query execution failed: ", dbError[k])
            /\ k \in warnings =>
                  /\ Count(ctrace[k], "release") = 1
                  /\ \A c \in Clients : clientLessee[c] # k

\* a call returned rows and its ROLLBACK failed afterwards
C11_Witness ==
    \E k \in Calls :
        /\ ctool[k] = "query"
        /\ k \in warnings
        /\ cresult[k] = Returned("rows")

C13_DecisionComputedOnce ==
    [][pc = "done" =>
          /\ pc' = "done"
          /\ hasAccess' = hasAccess
          /\ tools' = tools
          /\ pool' = pool
          /\ MembershipCalls' = MembershipCalls]_vars

\* a session granted through the membership probes in which the user-info
\* tool and a query have both run to their end
C13_Witness ==
    /\ pc = "done"
    /\ hasAccess = "grant"
    /\ Res("checkMembershipForUser") = "ok"
    /\ \E k1, k2 \in Calls :
          /\ ctool[k1] = "userInfoOctokit" /\ cpc[k1] = "returned"
          /\ ctool[k2] = "query" /\ cpc[k2] = "returned"

\* C14: a call of the table tool to whose schema lookup or table lookup the
\* engine answered with no rows has returned the matching not-found result,
\* which is not a thrown error, has issued ROLLBACK before its one release,
\* and its lease is back in the pool.
C14_NotFoundIsAResult ==
    \A k \in Calls :
        (ctool[k] = "steampipe_table_show" /\ dbZero[k] # "none") =>
            /\ cpc[k] = "returned"
            /\ cresult[k] = Returned(IF dbZero[k] = "SCHEMAQ" THEN "schema not found"
                                     ELSE "table not found")
            /\ cresult[k].kind # "error"
            /\ Pos(ctrace[k], "ROLLBACK") > 0
            /\ Pos(ctrace[k], "ROLLBACK") < Pos(ctrace[k], "release")
            /\ Count(ctrace[k], "release") = 1
            /\ cclient[k] = 0
            /\ \A c \in Clients : clientLessee[c] # k

\* the schema exists and the table does not; and a call without a schema
\* argument whose table does not exist
C14_Witness ==
    \E k1, k2 \in Calls :
        /\ ctool[k1] = "steampipe_table_show"
        /\ Count(ctrace[k1], "SCHEMAQ") = 1
        /\ dbZero[k1] = "TABLEQ"
        /\ ctool[k2] = "steampipe_table_show"
        /\ Count(ctrace[k2], "SCHEMAQ") = 0
        /\ dbZero[k2] = "TABLEQ"

\* C18: the membership-status probe is issued only after the public probe
\* reported not-found, and a decision whose public probe failed with a
\* transport error is a denial.
C18_SecondProbeOnlyAfterNotFound ==
    /\ Res("getMembershipForUser") # "none" => Res("checkMembershipForUser") = "notfound"
    /\ (pc = "done" /\ Res("checkMembershipForUser") = "error") => hasAccess = "deny"

\* the remote calls of the access decision, in the order of their issue
DecisionCalls == SelectSeq(remoteLog, LAMBDA e : e.op \in MembershipOps)
DecisionOrder == <<"appInfo", "checkMembershipForUser", "getMembershipForUser">>

\* C19: the remote calls of one decision are a prefix of owner resolution,
\* public-membership probe, membership-status probe, each issued once; a
\* probe follows only an owner resolution that gave an organization, the
\* membership-status probe follows only a public probe that did not succeed,
\* and every one of them is issued and answered before init ends.
C19_RemoteCallsInFixedOrder ==
    /\ Len(DecisionCalls) <= 3
    /\ \A i \in 1..Len(DecisionCalls) : DecisionCalls[i].op = DecisionOrder[i]
    /\ Len(DecisionCalls) >= 2 => DecisionCalls[1].res = "org"
    /\ Len(DecisionCalls) >= 3 => DecisionCalls[2].res \in {"notfound", "error"}
    /\ pc = "done" => \A i \in 1..Len(DecisionCalls) : DecisionCalls[i].res # "pending"
    /\ \A i \in 1..Len(remoteLog) :
          remoteLog[i].op \notin MembershipOps => Len(DecisionCalls) < i

\* all three calls were made, and the user-info tool ran afterwards
C19_Witness ==
    /\ pc = "done"
    /\ Len(DecisionCalls) = 3
    /\ Len(remoteLog) > 3
    /\ remoteLog[Len(remoteLog)].res = "ok"

\* C20: on every connection the queries wait in the order of their
\* submission, so whatever an earlier lessee still has in the queue is its
\* ROLLBACK and stands before everything of the present lessee; the query
\* about to run, a ROLLBACK included, finds no transaction or the one its own
\* call began, never one begun by another call.
C20_NothingCarriedOver ==
    \A c \in Clients :
        LET queue == clientQueue[c] IN
        /\ \A i \in 1..Len(queue) :
              queue[i].cmd # "ROLLBACK" => queue[i].by = clientLessee[c]
        /\ \A i, j \in 1..Len(queue) :
              (i < j /\ queue[i].by # queue[j].by) => queue[i].cmd = "ROLLBACK"
        /\ queue # <<>> => clientTx[c] \in {0, Head(queue).by}
        /\ queue = <<>> => clientTx[c] \in {0, clientLessee[c]}

\* a connection was handed on while the ROLLBACK of its previous lessee, in
\* whose transaction it still is, waits before the BEGIN of the next
C20_Witness ==
    \E c \in Clients :
        /\ Len(clientQueue[c]) = 2
        /\ clientQueue[c][1].cmd = "ROLLBACK"
        /\ clientQueue[c][2].cmd = "BEGIN"
        /\ clientQueue[c][1].by # clientQueue[c][2].by
        /\ clientTx[c] = clientQueue[c][1].by

\* C15: in the column entry built from a row, each optional field is present
\* with the row's value when the row's value is not null, the number 0
\* included, and is absent, and so never null, when the row's value is null.
C15_OptionalFieldsFollowMetadata ==
    mapped =>
        \A f \in OptionalFields :
            /\ row[f] # Null => (f \in DOMAIN column /\ column[f] = row[f])
            /\ row[f] = Null => f \notin DOMAIN column

\* C16: init, once started, ends with a grant or a denial, and every tool
\* call that has started ends with a result or an error, a call that waits
\* for a connection while all of them are lent out included.
C16_EveryCallSurfaces ==
    /\ (pc = "start") ~> (pc = "done" /\ hasAccess \in {"grant", "deny"})
    /\ \A k \in Calls : (cpc[k] # "idle") ~> (cpc[k] = "returned" /\ cresult[k] # NoResult)

\* a query call waits for a connection while every connection the pool may
\* open is lent to another call
C16_Witness ==
    \E k \in Calls :
        /\ ctool[k] = "query"
        /\ cpc[k] = "connecting"
        /\ pending = <<k>>
        /\ \A c \in Clients : clientState[c] = "leased" /\ clientLessee[c] # k

\* C17: with an explicit organization allow-list, a login that is not listed
\* next to a wildcard is decided by probing the candidates in their order: the
\* probes issued are a prefix of the candidates, every probe but the last has
\* failed, the decision is a grant exactly when the last probe succeeded, a
\* denial comes only after every candidate was probed, and an empty set is
\* denied without a probe.  Off the wildcard path no probe is issued.
C17_CandidatesProbedInOrder ==
    /\ Len(orgProbes) <= Len(candidates)
    /\ \A i \in 1..Len(orgProbes) : orgProbes[i].org = candidates[i]
    /\ \A i \in 1..(Len(orgProbes) - 1) : orgProbes[i].res \in {"notfound", "error"}
    /\ (Listed \/ Wildcard \notin Allowed) => orgProbes = <<>>
    /\ (variant = "orgset" /\ pc = "done" /\ ~Listed /\ Wildcard \in Allowed) =>
          /\ hasAccess = "grant" <=>
                (orgProbes # <<>> /\ orgProbes[Len(orgProbes)].res = "ok")
          /\ hasAccess = "deny" <=>
                /\ Len(orgProbes) = Len(candidates)
                /\ \A i \in 1..Len(orgProbes) : orgProbes[i].res \in {"notfound", "error"}

\* two candidates: the first fails, the second succeeds, grant
C17_Witness ==
    /\ pc = "done"
    /\ hasAccess = "grant"
    /\ Len(candidates) = 2
    /\ Len(orgProbes) = 2
    /\ orgProbes[1].res \in {"notfound", "error"}
    /\ orgProbes[2] = [org |-> candidates[2], res |-> "ok"]

====
